---- MODULE Spec2Model ----
(***************************************************************************)
(* A model of photo-archive.py: one run of main() (usage check, planning   *)
(* walk, preview, confirmation prompt, execution loop), the date resolver  *)
(* get_date_taken and the path allocator get_unique_path.                  *)
(*                                                                         *)
(* Text is modelled at two levels.  A string the program takes apart       *)
(* (a filename given to os.path.splitext, an EXIF date given to strptime,  *)
(* the answer typed at the prompt) is a sequence of one-character strings. *)
(* A string the program only compares or joins (a path component) is a     *)
(* TLA+ string; Str converts the first form into the second.  A path is a  *)
(* sequence of components: <<"D", "2020", "01-January", "a(1).jpg">>.      *)
(***************************************************************************)
EXTENDS Integers, Sequences, FiniteSets, TLC

VARIABLES
    argv,                \* sys.argv
    tree,                \* the files of the source tree, in os.walk order
    fs_files,            \* destination filesystem: paths that are files
    fs_dirs,             \* destination filesystem: paths that are directories
    pc,                  \* position of main()
    planned_operations,  \* list of (source_path, target_path, date_obj)
    reserved_paths,      \* set of target paths planned in this run
    file_count,          \* files the walk has yielded so far
    answer,              \* the line typed at the prompt, as typed
    confirm,             \* answer.strip().lower()
    exec_pos,            \* operations the execution loop has consumed
    success_count,       \* copies that succeeded
    stdout,              \* what the run printed, a traceback included
    exit_code,           \* process exit status, NotExited while running
    run,                 \* number of the current invocation
    start_files,         \* fs_files when the current invocation started
    start_dirs,          \* fs_dirs when the current invocation started
    prev_plans           \* plans built by earlier invocations, oldest first

vars == <<argv, tree, fs_files, fs_dirs, pc, planned_operations, reserved_paths,
          file_count, answer, confirm, exec_pos, success_count, stdout,
          exit_code, run, start_files, start_dirs, prev_plans>>

----------------------------------------------------------------------------
(* Bounds of the model. *)

MaxFiles == 3
MaxRuns == 2

NotExited == 0 - 1

----------------------------------------------------------------------------
(* Characters, strings and numbers. *)

Digits == <<"0", "1", "2", "3", "4", "5", "6", "7", "8", "9">>

IsDigit(c) == \E d \in 1..10 : Digits[d] = c

DigitVal(c) == (CHOOSE d \in 1..10 : Digits[d] = c) - 1

RECURSIVE Str(_)
Str(cs) == IF cs = <<>> THEN "" ELSE Head(cs) \o Str(Tail(cs))

\* str(counter) inside the f-string of get_unique_path
RECURSIVE Decimal(_)
Decimal(n) ==
    IF n < 10 THEN <<Digits[n + 1]>>
    ELSE Decimal(n \div 10) \o <<Digits[(n % 10) + 1]>>

\* the value of the digits cs[from..to], or -1 if one of them is no digit
RECURSIVE Number(_, _, _)
Number(cs, from, to) ==
    IF from > to THEN 0
    ELSE IF ~IsDigit(cs[to]) THEN 0 - 1
    ELSE LET high == Number(cs, from, to - 1)
         IN  IF high < 0 THEN 0 - 1 ELSE 10 * high + DigitVal(cs[to])

\* zero-padded decimal of width w, as strftime prints %Y (w = 4) and %m (w = 2)
RECURSIVE Padded(_, _)
Padded(n, w) ==
    IF w = 0 THEN "" ELSE Padded(n \div 10, w - 1) \o Digits[(n % 10) + 1]

MonthNames == <<"January", "February", "March", "April", "May", "June", "July",
                "August", "September", "October", "November", "December">>

DaysInMonth(y, m) ==
    IF m = 2
    THEN IF (y % 4 = 0 /\ y % 100 # 0) \/ y % 400 = 0 THEN 29 ELSE 28
    ELSE IF m \in {4, 6, 9, 11} THEN 30 ELSE 31

\* datetime.strptime(date_str, "%Y:%m:%d %H:%M:%S") for tags that write every
\* field at full width: the set holding the parsed value, empty on ValueError.
strptime(s) ==
    IF Len(s) # 19 \/ s[5] # ":" \/ s[8] # ":" \/ s[11] # " "
                   \/ s[14] # ":" \/ s[17] # ":"
    THEN {}
    ELSE LET y  == Number(s, 1, 4)
             mo == Number(s, 6, 7)
             d  == Number(s, 9, 10)
             h  == Number(s, 12, 13)
             mi == Number(s, 15, 16)
             se == Number(s, 18, 19)
         IN  IF /\ y >= 1
                /\ mo >= 1 /\ mo <= 12
                /\ d >= 1 /\ d <= DaysInMonth(y, mo)
                /\ h >= 0 /\ h <= 23
                /\ mi >= 0 /\ mi <= 59
                /\ se >= 0 /\ se <= 59
             THEN {[year |-> y, month |-> mo, day |-> d,
                    hour |-> h, minute |-> mi, second |-> se]}
             ELSE {}

year_folder(date_obj) == Padded(date_obj.year, 4)

\* a month folder whose number is not padded to two digits
month_folder_unpadded(date_obj) ==
    Str(Decimal(date_obj.month)) \o "-" \o MonthNames[date_obj.month]

month_folder(date_obj) ==
    Padded(date_obj.month, 2) \o "-" \o MonthNames[date_obj.month]

----------------------------------------------------------------------------
(* Paths. *)

Max(S) == CHOOSE x \in S : \A y \in S : y <= x

\* os.path.splitext of a bare filename: the extension starts at the last dot,
\* unless only dots precede it
splitext(p) ==
    LET dotIndex == Max({0} \cup {i \in 1..Len(p) : p[i] = "."})
    IN  IF dotIndex > 0 /\ \E i \in 1..(dotIndex - 1) : p[i] # "."
        THEN <<SubSeq(p, 1, dotIndex - 1), SubSeq(p, dotIndex, Len(p))>>
        ELSE <<p, <<>>>>

\* os.path.join(folder, filename)
join(folder, filename) == Append(folder, Str(filename))

dirname(path) == SubSeq(path, 1, Len(path) - 1)

basename(path) == path[Len(path)]

\* os.path.exists
exists(path) == path \in fs_files \/ path \in fs_dirs

\* the path and every ancestor of it
Prefixes(path, k) == {SubSeq(path, 1, j) : j \in 1..k}

----------------------------------------------------------------------------
(* The inputs of a run: the command line, the source tree, the destination *)
(* tree before the run, and what the user types at the prompt.             *)

Script == "photo-archive.py"

\* sys.argv: no positional argument, one, two, two and an empty prefix, two
\* and a prefix
CommandLines ==
    {<<Script>>, <<Script, "S">>, <<Script, "S", "D">>,
     <<Script, "S", "D", "">>, <<Script, "S", "D", "trip">>}

Name_a == <<"a", ".", "j", "p", "g">>
Name_a1 == <<"a", "(", "1", ")", ".", "j", "p", "g">>
Name_link == <<"l", "i", "n", "k", ".", "p", "n", "g">>

Tag_Jan2020 == <<"2", "0", "2", "0", ":", "0", "1", ":", "1", "5", " ", "1", "0", ":", "3", "0", ":", "0", "0">>
Tag_Feb30 == <<"2", "0", "2", "1", ":", "0", "2", ":", "3", "0", " ", "0", "8", ":", "0", "0", ":", "0", "0">>

Time_Jan2020 ==
    [year |-> 2020, month |-> 1, day |-> 20, hour |-> 9, minute |-> 5, second |-> 7]
Time_Dec2021 ==
    [year |-> 2021, month |-> 12, day |-> 31, hour |-> 23, minute |-> 59, second |-> 59]

(* A file of the source tree, as the program sees it.  root and name: the     *)
(* directory os.walk reports it in, and its filename.  image: what            *)
(* Image.open and _getexif make of it: "unopenable" (Image.open raises),      *)
(* "no_exif" (_getexif returns nothing) or "exif" (a dictionary).  tag: the   *)
(* value of EXIF tag 36867, <<>> when the dictionary has none.  mtime: the    *)
(* local date-time of the modification time, as a set; the set is empty when  *)
(* os.path.getmtime raises (a dangling symbolic link, which os.walk lists     *)
(* among the files).                                                          *)
SourceFiles ==
    {[root |-> <<"S">>, name |-> Name_a, image |-> "exif",
      tag |-> Tag_Jan2020, mtime |-> {Time_Dec2021}],
     [root |-> <<"S">>, name |-> Name_a1, image |-> "no_exif",
      tag |-> <<>>, mtime |-> {Time_Jan2020}],
     [root |-> <<"S">>, name |-> Name_link, image |-> "unopenable",
      tag |-> <<>>, mtime |-> {}],
     [root |-> <<"S", "x">>, name |-> Name_a, image |-> "exif",
      tag |-> Tag_Feb30, mtime |-> {Time_Jan2020}],
     [root |-> <<"S", "y">>, name |-> Name_a, image |-> "exif",
      tag |-> <<>>, mtime |-> {Time_Dec2021}],
     [root |-> <<"S", "z">>, name |-> Name_a, image |-> "unopenable",
      tag |-> <<>>, mtime |-> {Time_Jan2020}]}

\* os.walk is top-down: the files directly in the source directory come
\* before the files of its subdirectories; the order is otherwise arbitrary
WalkOrders ==
    {t \in UNION {[1..n -> SourceFiles] : n \in 0..MaxFiles} :
        /\ \A i, j \in DOMAIN t : i # j => t[i] # t[j]
        /\ \A i, j \in DOMAIN t :
               (i < j /\ Len(t[j].root) = 1) => Len(t[i].root) = 1}

January2020 == <<"D", "2020", "01-January">>

\* files that may be in the destination tree before the run
DestinationFiles ==
    {join(January2020, Name_a), join(January2020, Name_a1)}

\* lines the user may type at the prompt
Answers == {<<"y">>, <<" ", "Y">>, <<"n">>, <<"y", "e", "s">>}

----------------------------------------------------------------------------
(* get_date_taken, get_unique_path and the string methods main() calls. *)

\* The set holding the value get_date_taken returns for a source file; the
\* set is empty when the call raises (the fallback is outside the try block).
get_date_taken(file) ==
    LET date_str == IF file.image = "exif" THEN file.tag ELSE <<>>
        parsed == IF date_str # <<>> THEN strptime(date_str) ELSE {}
    IN  IF parsed # {} THEN parsed ELSE file.mtime

\* a loop that asks only the reserved set, not the filesystem
RECURSIVE UniqueLoopReservedOnly(_, _, _, _, _, _)
UniqueLoopReservedOnly(destination_folder, name, ext, full_path, counter, reserved) ==
    IF full_path \in reserved
    THEN LET new_filename == name \o <<"(">> \o Decimal(counter) \o <<")">> \o ext
         IN  UniqueLoopReservedOnly(destination_folder, name, ext,
                        join(destination_folder, new_filename), counter + 1, reserved)
    ELSE full_path

\* a loop whose counter advances by two
RECURSIVE UniqueLoopSkipping(_, _, _, _, _, _)
UniqueLoopSkipping(destination_folder, name, ext, full_path, counter, reserved) ==
    IF exists(full_path) \/ full_path \in reserved
    THEN LET new_filename == name \o <<"(">> \o Decimal(counter) \o <<")">> \o ext
         IN  UniqueLoopSkipping(destination_folder, name, ext,
                        join(destination_folder, new_filename), counter + 2, reserved)
    ELSE full_path

\* a loop that takes a candidate for occupied when a reserved path of any
\* folder has its filename
RECURSIVE UniqueLoopByName(_, _, _, _, _, _)
UniqueLoopByName(destination_folder, name, ext, full_path, counter, reserved) ==
    IF exists(full_path) \/ basename(full_path) \in {basename(r) : r \in reserved}
    THEN LET new_filename == name \o <<"(">> \o Decimal(counter) \o <<")">> \o ext
         IN  UniqueLoopByName(destination_folder, name, ext,
                        join(destination_folder, new_filename), counter + 1, reserved)
    ELSE full_path

\* the while loop of get_unique_path
RECURSIVE UniqueLoop(_, _, _, _, _, _)
UniqueLoop(destination_folder, name, ext, full_path, counter, reserved) ==
    IF exists(full_path) \/ full_path \in reserved
    THEN LET new_filename == name \o <<"(">> \o Decimal(counter) \o <<")">> \o ext
         IN  UniqueLoop(destination_folder, name, ext,
                        join(destination_folder, new_filename), counter + 1, reserved)
    ELSE full_path

\* an allocator that ignores the paths reserved in this run
get_unique_path_unreserved(destination_folder, filename, reserved) ==
    LET parts == splitext(filename)
    IN  UniqueLoop(destination_folder, parts[1], parts[2],
                   join(destination_folder, filename), 1, {})

\* an allocator whose counter starts at 0
get_unique_path_from_zero(destination_folder, filename, reserved) ==
    LET parts == splitext(filename)
    IN  UniqueLoop(destination_folder, parts[1], parts[2],
                   join(destination_folder, filename), 0, reserved)

get_unique_path(destination_folder, filename, reserved) ==
    LET parts == splitext(filename)
    IN  UniqueLoop(destination_folder, parts[1], parts[2],
                   join(destination_folder, filename), 1, reserved)

source == argv[2]
dest == argv[3]
\* sys.argv[3] if len(sys.argv) > 3 else None; None is the empty sequence
prefix == IF Len(argv) > 3 THEN <<argv[4]>> ELSE <<>>

\* the branch "if prefix:" and the two os.path.join calls
target_dir_of(date_obj) ==
    IF prefix # <<>> /\ prefix[1] # ""
    THEN <<dest, year_folder(date_obj), month_folder(date_obj), prefix[1]>>
    ELSE <<dest, year_folder(date_obj), month_folder(date_obj)>>

Whitespace == {" ", "\t", "\n", "\r"}

RECURSIVE lstrip(_)
lstrip(s) == IF s # <<>> /\ Head(s) \in Whitespace THEN lstrip(Tail(s)) ELSE s

RECURSIVE rstrip(_)
rstrip(s) ==
    IF s # <<>> /\ s[Len(s)] \in Whitespace THEN rstrip(SubSeq(s, 1, Len(s) - 1)) ELSE s

strip(s) == rstrip(lstrip(s))

UpperCase == <<"A", "B", "C", "D", "E", "F", "G", "H", "I", "J", "K", "L", "M",
               "N", "O", "P", "Q", "R", "S", "T", "U", "V", "W", "X", "Y", "Z">>
LowerCase == <<"a", "b", "c", "d", "e", "f", "g", "h", "i", "j", "k", "l", "m",
               "n", "o", "p", "q", "r", "s", "t", "u", "v", "w", "x", "y", "z">>

lower(s) ==
    [i \in DOMAIN s |->
        IF \E k \in 1..26 : UpperCase[k] = s[i]
        THEN LowerCase[CHOOSE k \in 1..26 : UpperCase[k] = s[i]]
        ELSE s[i]]

\* one printed line: what it is, the operation it is about (0: none) and the
\* two numbers it shows (0: none)
Line(kind, op, n, total) == [kind |-> kind, op |-> op, n |-> n, total |-> total]

----------------------------------------------------------------------------
(* The state machine. *)

Init ==
    /\ argv \in CommandLines
    /\ tree \in WalkOrders
    /\ fs_files \in SUBSET DestinationFiles
    /\ fs_dirs = UNION {Prefixes(f, Len(f) - 1) : f \in fs_files}
    /\ pc = "start"
    /\ planned_operations = <<>>
    /\ reserved_paths = {}
    /\ file_count = 0
    /\ answer = <<>>
    /\ confirm = <<>>
    /\ exec_pos = 0
    /\ success_count = 0
    /\ stdout = <<>>
    /\ exit_code = NotExited
    /\ run = 1
    /\ start_files = fs_files
    /\ start_dirs = fs_dirs
    /\ prev_plans = <<>>

\* main(), lines 53-67: the usage check and the empty plan
Start ==
    /\ pc = "start"
    /\ IF Len(argv) < 3
       THEN /\ stdout' = Append(stdout, Line("usage", 0, 0, 0))
            /\ pc' = "exit"
            /\ exit_code' = 1
            /\ UNCHANGED <<planned_operations, reserved_paths, file_count>>
       ELSE /\ stdout' = Append(stdout, Line("scanning", 0, 0, 0))
            /\ pc' = "plan"
            /\ planned_operations' = <<>>
            /\ reserved_paths' = {}
            /\ file_count' = 0
            /\ UNCHANGED exit_code
    /\ UNCHANGED <<argv, tree, fs_files, fs_dirs, answer, confirm, exec_pos,
                   success_count, run, start_files, start_dirs, prev_plans>>

\* One iteration of the planning loop, lines 70-94, for the next file of the
\* walk, as far as the variables of main() go.  An exception of
\* get_date_taken is not caught and ends the process.
PlanStep ==
    /\ pc = "plan"
    /\ file_count < Len(tree)
    /\ LET file == tree[file_count + 1]
           source_path == join(file.root, file.name)
           resolved == get_date_taken(file)
       IN  /\ file_count' = file_count + 1
           /\ IF resolved = {}
              THEN /\ stdout' = Append(stdout, Line("traceback", 0, 0, 0))
                   /\ pc' = "exit"
                   /\ exit_code' = 1
                   /\ UNCHANGED <<planned_operations, reserved_paths>>
              ELSE LET date_obj == CHOOSE d \in resolved : TRUE
                       target_dir == target_dir_of(date_obj)
                       target_path ==
                           get_unique_path(target_dir, file.name, reserved_paths)
                   IN  /\ reserved_paths' = reserved_paths \cup {target_path}
                       /\ planned_operations' =
                              Append(planned_operations,
                                     [src |-> source_path, dst |-> target_path,
                                      date |-> date_obj])
                       /\ UNCHANGED <<stdout, pc, exit_code>>
    /\ UNCHANGED <<argv, tree, answer, confirm, exec_pos, success_count, run,
                   start_files, start_dirs, prev_plans>>

\* the destination path the step just planned, if it planned one
JustPlanned ==
    IF Len(planned_operations') > Len(planned_operations)
    THEN {planned_operations'[Len(planned_operations')].dst}
    ELSE {}

\* a planning loop that creates the target folder while it plans
PlanFileMakingFolders ==
    /\ PlanStep
    /\ fs_dirs' = fs_dirs \cup UNION {Prefixes(p, Len(p) - 1) : p \in JustPlanned}
    /\ UNCHANGED fs_files

\* a planning loop that reserves the path on disk, with an empty file
PlanFileTouching ==
    /\ PlanStep
    /\ fs_dirs' = fs_dirs \cup UNION {Prefixes(p, Len(p) - 1) : p \in JustPlanned}
    /\ fs_files' = fs_files \cup JustPlanned

\* The iteration as a whole: lines 70-94 call nothing that writes to a
\* filesystem.
PlanFile ==
    /\ PlanStep
    /\ UNCHANGED <<fs_files, fs_dirs>>

\* the lines the preview loop prints, one per planned operation
PreviewLines ==
    [i \in 1..Len(planned_operations) |-> Line("plan", i, 0, 0)]

\* a test that never takes the empty-source exit
nothing_found_never(count) == FALSE

\* the test of line 96
nothing_found(count) == count = 0

\* after the walk, lines 96-110: the empty-source exit, or the preview
Preview ==
    /\ pc = "plan"
    /\ file_count = Len(tree)
    /\ IF nothing_found(file_count)
       THEN /\ stdout' = Append(stdout, Line("no files", 0, 0, 0))
            /\ pc' = "exit"
            /\ exit_code' = 0
       ELSE /\ stdout' = (Append(stdout, Line("found", 0, Len(planned_operations), 0))
                            \o PreviewLines)
            /\ pc' = "confirm"
            /\ UNCHANGED exit_code
    /\ UNCHANGED <<argv, tree, fs_files, fs_dirs, planned_operations,
                   reserved_paths, file_count, answer, confirm, exec_pos,
                   success_count, run, start_files, start_dirs, prev_plans>>

\* a test that cancels only on the answer n
cancels_on_n(reply) == reply = <<"n">>

\* the test of line 116
cancels(reply) == reply # <<"y">>

\* the prompt, lines 113-120 and 127
Confirm ==
    /\ pc = "confirm"
    /\ \E typed \in Answers :
          /\ answer' = typed
          /\ confirm' = lower(strip(typed))
          /\ IF cancels(confirm')
             THEN /\ stdout' = (stdout \o
                       <<Line("prompt", 0, Len(planned_operations), 0),
                         Line("cancelled", 0, 0, 0)>>)
                  /\ pc' = "exit"
                  /\ exit_code' = 0
                  /\ UNCHANGED <<success_count, exec_pos>>
             ELSE /\ stdout' = (stdout \o
                       <<Line("prompt", 0, Len(planned_operations), 0),
                         Line("copying", 0, 0, 0)>>)
                  /\ pc' = "execute"
                  /\ success_count' = 0
                  /\ exec_pos' = 0
                  /\ UNCHANGED exit_code
    /\ UNCHANGED <<argv, tree, fs_files, fs_dirs, planned_operations,
                   reserved_paths, file_count, run, start_files, start_dirs,
                   prev_plans>>

\* a failed os.makedirs that ends the loop instead of continuing it
CreateDirectoryFailsAndBreaks(op) ==
    LET target_dir == dirname(planned_operations[op].dst)
    IN  /\ ~exists(target_dir)
        /\ \E k \in 0..(Len(target_dir) - 1) :
               fs_dirs' = fs_dirs \cup Prefixes(target_dir, k)
        /\ stdout' = Append(stdout, Line("error creating directory", op, 0, 0))
        /\ exec_pos' = Len(planned_operations)
        /\ UNCHANGED <<fs_files, success_count>>

\* lines 131-136 when os.makedirs raises: the error is printed and the loop
\* continues with the next operation.  The call may have created some of the
\* missing ancestors before it failed.
CreateDirectoryFails(op) ==
    LET target_dir == dirname(planned_operations[op].dst)
    IN  /\ ~exists(target_dir)
        /\ \E k \in 0..(Len(target_dir) - 1) :
               fs_dirs' = fs_dirs \cup Prefixes(target_dir, k)
        /\ stdout' = Append(stdout, Line("error creating directory", op, 0, 0))
        /\ exec_pos' = op
        /\ UNCHANGED <<fs_files, success_count>>

\* lines 131-133 and 138-144: the folder exists or os.makedirs creates it,
\* then shutil.copy2 returns, or raises and may have written the file
CopyFile(op) ==
    LET dst == planned_operations[op].dst
        target_dir == dirname(dst)
    IN  /\ fs_dirs' = IF exists(target_dir) THEN fs_dirs
                      ELSE fs_dirs \cup Prefixes(target_dir, Len(target_dir))
        /\ exec_pos' = op
        /\ \/ /\ target_dir \in fs_dirs'
              /\ fs_files' = fs_files \cup {dst}
              /\ stdout' = Append(stdout, Line("copied", op, success_count,
                                               Len(planned_operations)))
              /\ success_count' = success_count + 1
           \/ /\ \E written \in BOOLEAN :
                     fs_files' = IF written /\ target_dir \in fs_dirs'
                                 THEN fs_files \cup {dst} ELSE fs_files
              /\ stdout' = Append(stdout, Line("error copying", op, 0, 0))
              /\ UNCHANGED success_count

\* one iteration of the execution loop, lines 128-144; os.makedirs and
\* shutil.copy2 succeed or raise as the environment decides
ExecuteOp ==
    /\ pc = "execute"
    /\ exec_pos < Len(planned_operations)
    /\ \/ CreateDirectoryFails(exec_pos + 1)
       \/ CopyFile(exec_pos + 1)
    /\ UNCHANGED <<argv, tree, pc, planned_operations, reserved_paths, file_count,
                   answer, confirm, exit_code, run, start_files, start_dirs,
                   prev_plans>>

\* a final report that empties the plan and the reserved set
FinishClearingPlan ==
    /\ pc = "execute"
    /\ exec_pos = Len(planned_operations)
    /\ stdout' = Append(stdout, Line("finished", 0, success_count, Len(planned_operations)))
    /\ pc' = "exit"
    /\ exit_code' = 0
    /\ planned_operations' = <<>>
    /\ reserved_paths' = {}
    /\ UNCHANGED <<argv, tree, fs_files, fs_dirs, file_count, answer, confirm,
                   exec_pos, success_count, run, start_files, start_dirs,
                   prev_plans>>

\* the final report, lines 146-147, and the return of main()
Finish ==
    /\ pc = "execute"
    /\ exec_pos = Len(planned_operations)
    /\ stdout' = Append(stdout, Line("finished", 0, success_count, Len(planned_operations)))
    /\ pc' = "exit"
    /\ exit_code' = 0
    /\ UNCHANGED <<argv, tree, fs_files, fs_dirs, planned_operations,
                   reserved_paths, file_count, answer, confirm, exec_pos,
                   success_count, run, start_files, start_dirs, prev_plans>>

\* The script is started again, lines 150-151, with the same command line on
\* the same trees.  The model follows a further invocation only after one
\* that did not reach the execution loop.
RunAgain ==
    /\ pc = "exit"
    /\ run < MaxRuns
    /\ confirm # <<"y">>
    /\ run' = run + 1
    /\ prev_plans' = Append(prev_plans, planned_operations)
    /\ start_files' = fs_files
    /\ start_dirs' = fs_dirs
    /\ pc' = "start"
    /\ planned_operations' = <<>>
    /\ reserved_paths' = {}
    /\ file_count' = 0
    /\ answer' = <<>>
    /\ confirm' = <<>>
    /\ exec_pos' = 0
    /\ success_count' = 0
    /\ stdout' = <<>>
    /\ exit_code' = NotExited
    /\ UNCHANGED <<argv, tree, fs_files, fs_dirs>>

Next ==
    \/ Start
    \/ PlanFile
    \/ Preview
    \/ Confirm
    \/ ExecuteOp
    \/ Finish
    \/ RunAgain

Spec == Init /\ [][Next]_vars

----------------------------------------------------------------------------
(* Properties. *)

Ops == DOMAIN planned_operations
Src(i) == planned_operations[i].src
Dst(i) == planned_operations[i].dst

\* the path os.path.join(target_dir, file) of operation i, before any suffix
Desired(i) == Append(dirname(Dst(i)), basename(Src(i)))

\* os.path.exists when the current invocation started
existed(path) == path \in start_files \/ path \in start_dirs

\* C1: at every moment of a run, no two operations of the plan have the same
\* destination path.
C1_UniqueDestinations ==
    \A i, j \in Ops : i # j => Dst(i) # Dst(j)

\* two files of the same name were planned into the same folder
C1_Witness ==
    \E i, j \in Ops :
        /\ i < j
        /\ basename(Src(i)) = basename(Src(j))
        /\ dirname(Dst(i)) = dirname(Dst(j))

\* C2: the path a planning step obtains from get_unique_path does not exist
\* on the filesystem at the time of the call and is not in the reserved set
\* passed to the call.
C2_AllocatedPathIsFree ==
    [][\A p \in JustPlanned : ~exists(p) /\ p \notin reserved_paths]_vars

\* a file was planned whose desired path was taken on the filesystem, so the
\* allocator had to move on to another candidate
C2_Witness ==
    \E i \in Ops : Desired(i) \in fs_files /\ Dst(i) # Desired(i) /\ pc = "plan"

\* C3: from the start of an invocation up to the prompt, and after the
\* prompt if the run does not enter the execution loop, the destination
\* filesystem is what it was when the invocation started.
C3_PlanningLeavesFilesystem ==
    (pc \in {"start", "plan", "confirm"} \/ (pc = "exit" /\ confirm # <<"y">>))
        => (fs_files = start_files /\ fs_dirs = start_dirs)

\* the run waits at the prompt with a plan whose target folders are missing
C3_Witness ==
    /\ pc = "confirm"
    /\ Len(planned_operations) >= 2
    /\ \A i \in Ops : ~exists(dirname(Dst(i)))

\* the execution loop has run, or something has been written
Executing ==
    \/ pc = "execute"
    \/ exec_pos > 0
    \/ fs_files # start_files
    \/ fs_dirs # start_dirs

\* C4, as stated: a directory is created or a file copied only after the
\* user has answered the prompt with y; after any other answer nothing is
\* executed.
C4_AsStated ==
    Executing => answer = <<"y">>

\* C4, amended: a directory is created or a file copied only after the whole
\* plan has been built and the user has typed an answer that is y once
\* stripped of surrounding whitespace and put in lower case; after any other
\* answer nothing is executed, and after such an answer the run ends only
\* when every planned operation has been attempted.
C4_ExecutionGated ==
    /\ Executing =>
           /\ lower(strip(answer)) = <<"y">>
           /\ file_count = Len(tree)
           /\ Len(planned_operations) = Len(tree)
    /\ (pc = "exit" /\ lower(strip(answer)) = <<"y">>) =>
           exec_pos = Len(planned_operations)

\* the user typed " Y" and a file was copied
C4_Witness ==
    /\ pc = "exit"
    /\ answer = <<" ", "Y">>
    /\ success_count >= 1

\* the user answered the prompt, and not with a yes
Declined == answer # <<>> /\ confirm # <<"y">>

\* C5: the exit code is 1 on a usage error and 1 when the user declines at
\* the prompt; it is 0 when the run completes the execution loop and when
\* the source tree holds no file.
C5_ExitCodes ==
    pc = "exit" =>
        /\ Len(argv) < 3 => exit_code = 1
        /\ Declined => exit_code = 1
        /\ confirm = <<"y">> => exit_code = 0
        /\ (Len(argv) >= 3 /\ Len(tree) = 0) => exit_code = 0

\* the operations for which the run printed a line of the given kind
Printed(kind) ==
    {stdout[k].op : k \in {k \in DOMAIN stdout : stdout[k].kind = kind}}

\* the folders os.makedirs failed to create
FailedFolders ==
    {dirname(Dst(i)) : i \in Printed("error creating directory")}

\* the last line printed
Report == stdout[Len(stdout)]

\* the run has executed its plan; exactly one folder could not be created, in
\* no attempt; every other os.makedirs and every shutil.copy2 succeeded
OneFolderFails ==
    /\ pc = "exit"
    /\ confirm = <<"y">>
    /\ Cardinality(FailedFolders) = 1
    /\ FailedFolders \cap fs_dirs = {}
    /\ Printed("error copying") = {}

\* C6, as stated: when one destination folder cannot be created and all else
\* succeeds, the whole plan of N operations is processed and the report says
\* N-1 of N.
C6_AsStated ==
    OneFolderFails =>
        /\ exec_pos = Len(planned_operations)
        /\ Report = Line("finished", 0, Len(planned_operations) - 1,
                         Len(planned_operations))

\* C6, amended: when one destination folder cannot be created and all else
\* succeeds, the whole plan of N operations is processed and the report says
\* N-k of N, where k is the number of operations of the plan whose
\* destination lies in that folder.
C6_FailSoft ==
    OneFolderFails =>
        /\ exec_pos = Len(planned_operations)
        /\ Report = Line("finished", 0,
                         Len(planned_operations)
                           - Cardinality({i \in Ops : dirname(Dst(i)) \in FailedFolders}),
                         Len(planned_operations))

\* of three operations, the two that share the failing folder were skipped
\* and the third was copied
C6_Witness ==
    /\ OneFolderFails
    /\ Len(planned_operations) = 3
    /\ Report = Line("finished", 0, 1, 3)

\* operation i copies a source file named a.jpg
IsA(i) == basename(Src(i)) = "a.jpg"

\* how many files named a.jpg were planned into the folder of operation i
\* before it
Rank(i) ==
    Cardinality({j \in Ops : j < i /\ IsA(j) /\ dirname(Dst(j)) = dirname(Dst(i))})

\* a.jpg, a(1).jpg, a(2).jpg, ...
Suffixed(n) == IF n = 0 THEN "a.jpg" ELSE "a(" \o Str(Decimal(n)) \o ").jpg"

\* C7, as stated: of the source files named a.jpg planned into one folder,
\* the first is planned as a.jpg, the second as a(1).jpg, the third as
\* a(2).jpg.
C7_AsStated ==
    \A i \in Ops : IsA(i) => basename(Dst(i)) = Suffixed(Rank(i))

\* none of the names a.jpg .. a(Rank(i)).jpg was in the folder of operation i
\* when the run started, and none was planned for a file not named a.jpg
Clear(i) ==
    \A n \in 0..Rank(i) :
        LET candidate == Append(dirname(Dst(i)), Suffixed(n))
        IN  /\ ~existed(candidate)
            /\ \A j \in Ops : (j < i /\ ~IsA(j)) => Dst(j) # candidate

\* C7, amended: of the source files named a.jpg planned into one folder, the
\* first is planned as a.jpg, the second as a(1).jpg, the third as a(2).jpg,
\* provided that none of these names exists in that folder before the run
\* and none was planned earlier for a source file of another name.
C7_CollisionLaw ==
    \A i \in Ops : (IsA(i) /\ Clear(i)) => basename(Dst(i)) = Suffixed(Rank(i))

\* a third a.jpg was planned into a folder clear of the three names
C7_Witness ==
    \E i \in Ops : IsA(i) /\ Clear(i) /\ Rank(i) = 2

\* the command line is well-formed and the source tree holds no file
EmptySource == Len(argv) >= 3 /\ Len(tree) = 0

\* C8: an empty source tree gives an empty plan and ends the run with exit
\* code 0 and a message of its own, with no preview, no prompt and nothing
\* executed; a run over a source tree with files never prints that message.
C8_EmptySource ==
    /\ EmptySource =>
           /\ pc \in {"start", "plan", "exit"}
           /\ planned_operations = <<>>
           /\ ~Executing
           /\ pc = "exit" =>
                  /\ exit_code = 0
                  /\ stdout = <<Line("scanning", 0, 0, 0), Line("no files", 0, 0, 0)>>
    /\ (\E k \in DOMAIN stdout : stdout[k].kind = "no files") => EmptySource

\* a run over an empty source tree has ended
C8_Witness == EmptySource /\ pc = "exit"

\* C9: an invocation that has finished planning holds the very plan every
\* earlier invocation built, when no invocation in between entered the
\* execution loop.
C9_PlannerIdempotent ==
    pc \in {"confirm", "execute", "exit"} =>
        \A r \in DOMAIN prev_plans : prev_plans[r] = planned_operations

\* a second invocation has planned again, and one file collided
C9_Witness ==
    /\ run = 2
    /\ pc = "confirm"
    /\ \E i \in Ops : Dst(i) # Desired(i)

\* the tag of a source file is present and parses
HasValidTag(file) ==
    file.image = "exif" /\ file.tag # <<>> /\ strptime(file.tag) # {}

\* C10: resolution never raises, so every file the walk has yielded has its
\* operation in the plan; the date of the operation is the parsed tag when
\* the tag is present and parses, and the modification time otherwise.
C10_DateResolution ==
    \A i \in 1..file_count :
        /\ i \in Ops
        /\ planned_operations[i].date \in
               (IF HasValidTag(tree[i]) THEN strptime(tree[i].tag) ELSE tree[i].mtime)

\* the files of the source tree that cannot be opened as an image
CorruptFiles == {i \in DOMAIN tree : tree[i].image = "unopenable"}

\* the files that open as an image and whose tag, if any, parses
WellFormedFiles ==
    {i \in DOMAIN tree :
        /\ tree[i].image # "unopenable"
        /\ (tree[i].image = "exif" /\ tree[i].tag # <<>>) => strptime(tree[i].tag) # {}}

\* a well-formed command line over a source tree of one corrupt image and
\* two well-formed images, all with a readable modification time
OneCorruptOfThree ==
    /\ Len(argv) >= 3
    /\ Len(tree) = 3
    /\ Cardinality(CorruptFiles) = 1
    /\ Cardinality(WellFormedFiles) = 2
    /\ \A i \in DOMAIN tree : tree[i].mtime # {}

Forced == \E k \in DOMAIN argv : argv[k] = "--force"

\* the lines of the given kind the run printed
Lines(kind) == {k \in DOMAIN stdout : stdout[k].kind = kind}

\* C11: over a source tree of one corrupt and two well-formed images the run
\* reports exactly one scan error; without --force it ends with exit code 1
\* and copies nothing; with --force it copies all three files, the corrupt
\* one placed by its modification time.
C11_StrictValidation ==
    (OneCorruptOfThree /\ pc = "exit") =>
        /\ Cardinality(Lines("scan error")) = 1
        /\ ~Forced => (exit_code = 1 /\ ~Executing)
        /\ Forced =>
               /\ Printed("copied") = Ops
               /\ Ops = DOMAIN tree
               /\ \A i \in CorruptFiles : planned_operations[i].date \in tree[i].mtime

\* the year and month folders the layout prescribes for the dates of the model
LayoutYear(date) ==
    CASE date.year = 2020 -> "2020"
      [] date.year = 2021 -> "2021"
      [] OTHER -> "?"

LayoutMonth(date) ==
    CASE date.month = 1 -> "01-January"
      [] date.month = 12 -> "12-December"
      [] OTHER -> "?"

\* stem and extension of the filenames of the model
LayoutStem(filename) ==
    CASE filename = "a.jpg" -> "a"
      [] filename = "a(1).jpg" -> "a(1)"
      [] filename = "link.png" -> "link"
      [] OTHER -> "?"

LayoutExt(filename) ==
    CASE filename = "a.jpg" -> ".jpg"
      [] filename = "a(1).jpg" -> ".jpg"
      [] filename = "link.png" -> ".png"
      [] OTHER -> "?"

SuffixNumbers == {"1", "2", "3", "4", "5", "6", "7", "8", "9"}

\* stem ext and stem(n)ext
LayoutNames(filename) ==
    {LayoutStem(filename) \o LayoutExt(filename)}
        \cup {LayoutStem(filename) \o "(" \o n \o ")" \o LayoutExt(filename) :
                 n \in SuffixNumbers}

\* every planned destination is dest/YYYY/MM-MonthName/ followed by the given
\* prefix components and a name of the source file's stem and extension
LayoutWith(prefix_components) ==
    \A i \in Ops :
        /\ dirname(Dst(i)) =
               <<argv[3], LayoutYear(planned_operations[i].date),
                 LayoutMonth(planned_operations[i].date)>> \o prefix_components
        /\ basename(Dst(i)) \in LayoutNames(basename(Src(i)))

IsAttempt(line) ==
    line.kind \in {"copied", "error creating directory", "error copying"}

\* the attempts the run reported, in the order it reported them
Attempts == SelectSeq(stdout, IsAttempt)

\* the user accepted and the run has ended
Executed == pc = "exit" /\ confirm = <<"y">>

\* C13: the execution loop attempts the operations of the plan once each, in
\* plan order, whatever the outcome of the earlier ones; success_count is the
\* number of operations copied and lies between 0 and the plan length in
\* every state of the execution; the run ends only after the last operation,
\* with the report success_count of plan length.
C13_ExecutesWholePlan ==
    /\ (pc = "execute" \/ Executed) =>
           /\ Len(Attempts) = exec_pos
           /\ \A k \in 1..exec_pos : Attempts[k].op = k
           /\ success_count = Cardinality(Printed("copied"))
           /\ success_count >= 0
           /\ success_count <= Len(planned_operations)
           /\ \A i \in Printed("copied") : Dst(i) \in fs_files
    /\ Executed =>
           /\ exec_pos = Len(planned_operations)
           /\ Report = Line("finished", 0, Cardinality(Printed("copied")),
                            Len(planned_operations))

\* a run ended in which a folder creation failed, then a copy failed, then a
\* later operation was copied
C13_Witness ==
    /\ Executed
    /\ \E i, j, k \in Ops :
           /\ i < j /\ j < k
           /\ i \in Printed("error creating directory")
           /\ j \in Printed("error copying")
           /\ k \in Printed("copied")

Numerals == <<"1", "2", "3", "4", "5", "6", "7", "8", "9">>

\* candidate 0 is the desired filename in the folder, candidate n is stem(n)ext
Candidate(folder, filename, n) ==
    Append(folder,
           IF n = 0 THEN filename
           ELSE LayoutStem(filename) \o "(" \o Numerals[n] \o ")" \o LayoutExt(filename))

\* neither on the filesystem nor reserved
Free(path) == ~exists(path) /\ path \notin reserved_paths

\* C14: the path a planning step obtains from the allocator is the first free
\* candidate of the file's target folder, in the order desired filename,
\* stem(1)ext, stem(2)ext, ...; the step leaves the filesystem as it is and
\* adds that one path to the reserved set.
C14_MinimalFreeCandidate ==
    [][\A p \in JustPlanned :
          LET op == planned_operations'[Len(planned_operations')]
              folder == target_dir_of(op.date)
              filename == basename(op.src)
          IN  /\ \E n \in 0..Len(Numerals) :
                     /\ p = Candidate(folder, filename, n)
                     /\ Free(p)
                     /\ \A m \in 0..(n - 1) : ~Free(Candidate(folder, filename, m))
              /\ reserved_paths' = reserved_paths \cup {p}
              /\ fs_files' = fs_files
              /\ fs_dirs' = fs_dirs]_vars

\* a file was planned as a(2).jpg
C14_Witness ==
    pc = "plan" /\ \E i \in Ops : basename(Dst(i)) = "a(2).jpg"

\* the step is a call of shutil.copy2 for operation op, returning or raising
IsCopyOf(op) ==
    /\ pc = "execute"
    /\ exec_pos' = op
    /\ Len(stdout') = Len(stdout) + 1
    /\ stdout'[Len(stdout')].kind \in {"copied", "error copying"}

\* C15: every call of shutil.copy2 in the execution loop has a destination
\* that is not on the filesystem just before the call: it is neither a path
\* that was there when the run began nor the destination of an earlier
\* operation of the run.
C15_NoOverwrite ==
    [][\A op \in Ops :
          IsCopyOf(op) =>
              /\ ~exists(Dst(op))
              /\ ~existed(Dst(op))
              /\ \A earlier \in 1..(op - 1) : Dst(earlier) # Dst(op)]_vars

\* two files were copied: the first one's desired path was on the filesystem
\* before the run, the second one's desired path is where the first one went
C15_Witness ==
    /\ Executed
    /\ \E i, j \in Printed("copied") :
           /\ i < j
           /\ existed(Desired(i))
           /\ Desired(j) = Dst(i)

\* the folders created since the current invocation started
CreatedFolders == fs_dirs \ start_dirs

\* the folder is the folder of the path or one of that folder's ancestors
Holds(folder, path) ==
    /\ Len(folder) < Len(path)
    /\ folder = SubSeq(path, 1, Len(folder))

\* C16: when the execution loop has ended, every folder the run created
\* holds, in itself or in a folder below it, the destination of an operation
\* the run copied.
C16_FoldersOnlyForCopies ==
    Executed =>
        \A folder \in CreatedFolders :
            \E i \in Printed("copied") : Holds(folder, Dst(i))

\* the reserved set is the set of planned destinations, and the plan has one
\* operation for each file discovered, in the order of the walk
Lockstep ==
    /\ reserved_paths = {Dst(i) : i \in Ops}
    /\ Len(planned_operations) = file_count
    /\ \A i \in Ops : Src(i) = join(tree[i].root, tree[i].name)

\* the planning loop has ended: the program is at the preview, at the prompt
\* or in the execution loop
AfterPlanning ==
    \/ pc = "plan" /\ file_count = Len(tree)
    \/ pc \in {"confirm", "execute"}

\* C17: each step of the planning loop that plans an operation leaves the plan
\* and the reserved set in lockstep, and a step taken while the program
\* previews, asks for confirmation or executes leaves both as they are.  A
\* planning step that dies in get_date_taken plans nothing and ends the run.
C17_LockstepAndFrozen ==
    [][/\ JustPlanned # {} => Lockstep'
       /\ AfterPlanning =>
              /\ planned_operations' = planned_operations
              /\ reserved_paths' = reserved_paths]_vars

\* the execution loop is past its first operation with a plan of three
C17_Witness ==
    /\ pc = "execute"
    /\ exec_pos >= 1
    /\ Len(planned_operations) = 3
    /\ Cardinality(reserved_paths) = 3

\* candidate n of operation i in its target folder
CandidateOf(i, n) == Candidate(dirname(Dst(i)), basename(Src(i)), n)

\* the candidates of operation i that were on the filesystem or reserved when
\* the allocator was called for it
Occupied(i) ==
    {n \in 0..Len(Numerals) :
        \/ existed(CandidateOf(i, n))
        \/ \E j \in 1..(i - 1) : Dst(j) = CandidateOf(i, n)}

\* the allocator returned candidate n for operation i after testing the
\* candidates 0..n, which are no more than the occupied ones and one
AllocatorBound ==
    \A i \in Ops :
        \E n \in 0..Len(Numerals) :
            /\ Dst(i) = CandidateOf(i, n)
            /\ n + 1 <= Cardinality(Occupied(i)) + 1

\* the run ended in the planning loop, with files of the walk left unplanned
PlanningAborted ==
    /\ pc = "exit"
    /\ Len(argv) >= 3
    /\ Len(planned_operations) < Len(tree)

\* C18: every call of the allocator returned a path after testing at most as
\* many candidates as are occupied in the target folder, and one more; and
\* the planning loop always runs to its end, so that a run which got past the
\* usage test never ends with files of the walk left unplanned.
C18_PlanningCompletes ==
    /\ AllocatorBound
    /\ ~PlanningAborted

\* the desired path of operation i was reserved by an earlier operation
ReservedBefore(i) == \E j \in 1..(i - 1) : Dst(j) = Desired(i)

\* the operation carries a suffix only if its desired path was occupied
SuffixOnlyIfOccupied ==
    \A i \in Ops :
        Dst(i) # Desired(i) => (existed(Desired(i)) \/ ReservedBefore(i))

\* two operations for files of one filename that go to different folders
SameNameApart(i, j) ==
    /\ i # j
    /\ basename(Src(i)) = basename(Src(j))
    /\ dirname(Dst(i)) # dirname(Dst(j))

\* C19 as stated: a planned file carries a suffix only if its desired path was
\* on the filesystem or reserved, and two files of one filename that go to
\* different folders both keep the filename whenever neither desired path was
\* on the filesystem before the run.
C19_AsStated ==
    /\ SuffixOnlyIfOccupied
    /\ \A i, j \in Ops :
           (SameNameApart(i, j) /\ ~existed(Desired(i)) /\ ~existed(Desired(j)))
               => (Dst(i) = Desired(i) /\ Dst(j) = Desired(j))

\* C19: a planned file carries a suffix only if its desired path was on the
\* filesystem or reserved, and two files of one filename that go to different
\* folders both keep the filename whenever neither desired path was on the
\* filesystem before the run or reserved by an earlier file of the run.
C19_PerFolderCollisions ==
    /\ SuffixOnlyIfOccupied
    /\ \A i, j \in Ops :
           (/\ SameNameApart(i, j)
            /\ ~existed(Desired(i)) /\ ~ReservedBefore(i)
            /\ ~existed(Desired(j)) /\ ~ReservedBefore(j))
               => (Dst(i) = Desired(i) /\ Dst(j) = Desired(j))

\* two files named a.jpg were planned into different folders, each as a.jpg
C19_Witness ==
    \E i, j \in Ops :
        /\ SameNameApart(i, j)
        /\ basename(Dst(i)) = "a.jpg"
        /\ basename(Dst(j)) = "a.jpg"

====
